---- MODULE Spec2Model ----
(***************************************************************************)
(* A model of the rules engine of naokiwork/tetris: Board (src/board.ts),  *)
(* ScoreSystem and the piece geometry / BagSystem (src/score.ts) and the   *)
(* Game session (first Game class of unnamed/part_000, lines 2028-2357).   *)
(*                                                                         *)
(* Every method is an operator on values (a grid, a piece, a game record)  *)
(* computed the way the code computes it; every action of a specification  *)
(* applies one public method to the current state and stores the result.   *)
(***************************************************************************)
EXTENDS Integers, Sequences, FiniteSets, TLC

----------------------------------------------------------------------------
(* types.ts *)

BOARD_WIDTH == 10

BOARD_HEIGHT == 20

PieceTypes == {"I", "O", "T", "S", "Z", "J", "L"}

\* Cell = null | PieceType
Null == "null"

\* GameState
MENU == "MENU"

PLAYING == "PLAYING"

PAUSED == "PAUSED"

GAME_OVER == "GAME_OVER"

Pos(px, py) == [x |-> px, y |-> py]

Min(a, b) == IF a <= b THEN a ELSE b

Max(a, b) == IF a >= b THEN a ELSE b

----------------------------------------------------------------------------
(* board.ts: the grid is an array of BOARD_HEIGHT rows (row 0 = top) of     *)
(* BOARD_WIDTH cells; row y is grid[y + 1], cell x of it is grid[y + 1][x + 1] *)

EmptyRow == [x \in 1..BOARD_WIDTH |-> Null]

EmptyGrid == [y \in 1..BOARD_HEIGHT |-> EmptyRow]

\* the cells of the grid a piece covers: position + block, for each block of its shape
PieceCells(piece) ==
    [i \in 1..Len(piece.shape) |->
        Pos(piece.position.x + piece.shape[i].x, piece.position.y + piece.shape[i].y)]

InBounds(c) == c.x >= 0 /\ c.x < BOARD_WIDTH /\ c.y >= 0 /\ c.y < BOARD_HEIGHT

\* (a variant of hasCollision that lets a piece stick out above the top row)
hasCollisionOpenTop(grid, piece) ==
    \E i \in 1..Len(piece.shape) :
        LET c == PieceCells(piece)[i]
        IN  \/ c.x < 0 \/ c.x >= BOARD_WIDTH \/ c.y >= BOARD_HEIGHT
            \/ c.y >= 0 /\ grid[c.y + 1][c.x + 1] # Null

hasCollision(grid, piece) ==
    \E i \in 1..Len(piece.shape) :
        LET c == PieceCells(piece)[i]
        IN  \/ c.x < 0 \/ c.x >= BOARD_WIDTH \/ c.y < 0 \/ c.y >= BOARD_HEIGHT
            \/ grid[c.y + 1][c.x + 1] # Null

placePiece(grid, piece) ==
    [y \in 1..BOARD_HEIGHT |-> [x \in 1..BOARD_WIDTH |->
        IF \E i \in 1..Len(piece.shape) :
               /\ InBounds(PieceCells(piece)[i])
               /\ PieceCells(piece)[i] = Pos(x - 1, y - 1)
        THEN piece.type
        ELSE grid[y][x]]]

RowIndices == [i \in 1..BOARD_HEIGHT |-> i - 1]

IsFullRow(grid, y) == \A x \in 1..BOARD_WIDTH : grid[y + 1][x] # Null

getFullRows(grid) == SelectSeq(RowIndices, LAMBDA y : IsFullRow(grid, y))

\* grid.splice(row, 1) followed by grid.unshift(empty row)
clearRow(grid, row) ==
    IF row >= 0 /\ row < BOARD_HEIGHT
    THEN <<EmptyRow>> \o SubSeq(grid, 1, row) \o SubSeq(grid, row + 2, BOARD_HEIGHT)
    ELSE grid

\* [...rows].sort((a, b) => b - a): insertion into a descending list
RECURSIVE InsertDesc(_, _)
InsertDesc(sorted, a) ==
    IF sorted = <<>> THEN <<a>>
    ELSE IF a >= Head(sorted) THEN <<a>> \o sorted
    ELSE <<Head(sorted)>> \o InsertDesc(Tail(sorted), a)

RECURSIVE SortDescending(_)
SortDescending(rows) ==
    IF rows = <<>> THEN <<>>
    ELSE InsertDesc(SortDescending(Tail(rows)), Head(rows))

RECURSIVE ClearEach(_, _)
ClearEach(grid, sortedRows) ==
    IF sortedRows = <<>> THEN grid
    ELSE ClearEach(clearRow(grid, Head(sortedRows)), Tail(sortedRows))

\* (a variant of clearRows that clears the rows in the order they are listed)
clearRowsUnsorted(grid, rows) == ClearEach(grid, rows)

\* the grid after clearRows(rows); the method returns sortedRows.length
clearRows(grid, rows) == ClearEach(grid, SortDescending(rows))

\* the grid after clearFullRows(); the method returns fullRows.length
clearFullRows(grid) ==
    LET fullRows == getFullRows(grid)
    IN  IF Len(fullRows) > 0 THEN clearRows(grid, fullRows) ELSE grid

clearFullRowsCount(grid) == Len(getFullRows(grid))

MovedBy(piece, dx, dy) ==
    [piece EXCEPT !.position = Pos(piece.position.x + dx, piece.position.y + dy)]

\* the y of the first colliding test piece of the loop
\* while (!hasCollision(testPiece)) testPiece.position.y++
RECURSIVE FirstCollidingY(_, _)
FirstCollidingY(grid, testPiece) ==
    IF hasCollision(grid, testPiece) THEN testPiece.position.y
    ELSE FirstCollidingY(grid, MovedBy(testPiece, 0, 1))

\* (a variant of getGhostPosition that returns the row of the collision)
getGhostPositionAtCollision(grid, piece) ==
    Pos(piece.position.x, FirstCollidingY(grid, piece))

getGhostPosition(grid, piece) ==
    Pos(piece.position.x, FirstCollidingY(grid, piece) - 1)

isGameOver(grid, piece) == hasCollision(grid, piece)

----------------------------------------------------------------------------
(* score.ts, lines 1-130: ScoreSystem.  A game record g carries the fields  *)
(* score, level and lines of the session's ScoreSystem.                     *)

MAX_SCORE == 999999

\* (a variant of NewLevel that forgets the + 1)
NewLevelFromZero(lines) == lines \div 10

\* Math.floor(this.lines / 10) + 1
NewLevel(lines) == (lines \div 10) + 1

\* switch (linesCleared): 100, 300, 500, 800, and 0 for any other count
BaseScore(linesCleared) ==
    CASE linesCleared = 1 -> 100
      [] linesCleared = 2 -> 300
      [] linesCleared = 3 -> 500
      [] linesCleared = 4 -> 800
      [] OTHER -> 0

\* Math.min(this.score + scoreIncrease, MAX_SCORE)
LineScore(score, scoreIncrease) == Min(score + scoreIncrease, MAX_SCORE)

\* (a variant of addLines whose level starts again at 1 every 20 lines)
addLinesLevelWraps(g, linesCleared) ==
    LET lines == g.lines + linesCleared
        level == NewLevel(lines % 20)
    IN  [g EXCEPT !.lines = lines,
                  !.level = level,
                  !.score = LineScore(g.score, BaseScore(linesCleared) * level)]

\* (a variant of addLines that multiplies by the level before the recompute)
addLinesOldLevel(g, linesCleared) ==
    LET lines == g.lines + linesCleared
        newLevel == NewLevel(lines)
    IN  [g EXCEPT !.lines = lines,
                  !.level = IF newLevel > g.level THEN newLevel ELSE g.level,
                  !.score = LineScore(g.score, BaseScore(linesCleared) * g.level)]

addLines(g, linesCleared) ==
    LET lines == g.lines + linesCleared
        newLevel == NewLevel(lines)
        level == IF newLevel > g.level THEN newLevel ELSE g.level
        scoreIncrease == BaseScore(linesCleared) * level
    IN  [g EXCEPT !.lines = lines,
                  !.level = level,
                  !.score = LineScore(g.score, scoreIncrease)]

\* this.score += blocks
SoftDropScore(score, blocks) == score + blocks

addSoftDrop(g, blocks) == [g EXCEPT !.score = SoftDropScore(g.score, blocks)]

\* this.score += blocks * 2
HardDropScore(score, blocks) == score + blocks * 2

addHardDrop(g, blocks) == [g EXCEPT !.score = HardDropScore(g.score, blocks)]

\* (a variant of getDropInterval that slows down again at level 20)
getDropIntervalSlowAtTwenty(level) ==
    IF level >= 20 THEN 150
    ELSE IF level >= 10 THEN 100
    ELSE Max(100, 1000 - (level - 1) * 100)

getDropInterval(level) ==
    IF level >= 20 THEN 50
    ELSE IF level >= 10 THEN 100
    ELSE Max(100, 1000 - (level - 1) * 100)

\* ScoreSystem.reset()
resetScore(g) == [g EXCEPT !.score = 0, !.level = 1, !.lines = 0]

----------------------------------------------------------------------------
(* score.ts, lines 133-293: piece shapes, rotation with wall kicks, the bag *)

PIECE_SHAPES ==
    [t \in PieceTypes |->
        CASE t = "I" -> <<Pos(-1, 0), Pos(0, 0), Pos(1, 0), Pos(2, 0)>>
          [] t = "O" -> <<Pos(0, 0), Pos(1, 0), Pos(0, 1), Pos(1, 1)>>
          [] t = "T" -> <<Pos(-1, 0), Pos(0, 0), Pos(1, 0), Pos(0, 1)>>
          [] t = "S" -> <<Pos(-1, 1), Pos(0, 1), Pos(0, 0), Pos(1, 0)>>
          [] t = "Z" -> <<Pos(-1, 0), Pos(0, 0), Pos(0, 1), Pos(1, 1)>>
          [] t = "J" -> <<Pos(-1, 0), Pos(0, 0), Pos(1, 0), Pos(-1, 1)>>
          [] t = "L" -> <<Pos(-1, 0), Pos(0, 0), Pos(1, 0), Pos(1, 1)>>]

\* the wall-kick table, keyed by <<piece class, fromRotation, toRotation>>
SRS_KICKS ==
    [k \in ({"I", "JLSTZ"} \X
            {<<0, 1>>, <<1, 0>>, <<1, 2>>, <<2, 1>>, <<2, 3>>, <<3, 2>>, <<3, 0>>, <<0, 3>>}) |->
        CASE k = <<"I", <<0, 1>>>> -> <<<<0, 0>>, <<-1, 0>>, <<1, 0>>, <<0, -1>>, <<-1, -1>>>>
          [] k = <<"I", <<1, 0>>>> -> <<<<0, 0>>, <<1, 0>>, <<-1, 0>>, <<0, 1>>, <<1, 1>>>>
          [] k = <<"I", <<1, 2>>>> -> <<<<0, 0>>, <<1, 0>>, <<0, 1>>, <<-1, 0>>, <<1, 1>>>>
          [] k = <<"I", <<2, 1>>>> -> <<<<0, 0>>, <<-1, 0>>, <<0, -1>>, <<1, 0>>, <<-1, -1>>>>
          [] k = <<"I", <<2, 3>>>> -> <<<<0, 0>>, <<1, 0>>, <<-1, 0>>, <<0, 1>>, <<1, 1>>>>
          [] k = <<"I", <<3, 2>>>> -> <<<<0, 0>>, <<-1, 0>>, <<1, 0>>, <<0, -1>>, <<-1, -1>>>>
          [] k = <<"I", <<3, 0>>>> -> <<<<0, 0>>, <<0, 1>>, <<0, -1>>, <<-1, 0>>, <<0, -2>>>>
          [] k = <<"I", <<0, 3>>>> -> <<<<0, 0>>, <<0, -1>>, <<0, 1>>, <<1, 0>>, <<0, 2>>>>
          [] k = <<"JLSTZ", <<0, 1>>>> -> <<<<0, 0>>, <<-1, 0>>, <<-1, 1>>, <<0, -2>>, <<-1, -2>>>>
          [] k = <<"JLSTZ", <<1, 0>>>> -> <<<<0, 0>>, <<1, 0>>, <<1, -1>>, <<0, 2>>, <<1, 2>>>>
          [] k = <<"JLSTZ", <<1, 2>>>> -> <<<<0, 0>>, <<1, 0>>, <<1, -1>>, <<0, 2>>, <<1, 2>>>>
          [] k = <<"JLSTZ", <<2, 1>>>> -> <<<<0, 0>>, <<-1, 0>>, <<-1, 1>>, <<0, -2>>, <<-1, -2>>>>
          [] k = <<"JLSTZ", <<2, 3>>>> -> <<<<0, 0>>, <<1, 0>>, <<1, 1>>, <<0, -2>>, <<1, -2>>>>
          [] k = <<"JLSTZ", <<3, 2>>>> -> <<<<0, 0>>, <<-1, 0>>, <<-1, -1>>, <<0, 2>>, <<-1, 2>>>>
          [] k = <<"JLSTZ", <<3, 0>>>> -> <<<<0, 0>>, <<-1, 0>>, <<-1, 1>>, <<0, -2>>, <<-1, -2>>>>
          [] k = <<"JLSTZ", <<0, 3>>>> -> <<<<0, 0>>, <<1, 0>>, <<1, -1>>, <<0, 2>>, <<1, 2>>>>]

\* for (i = 0; i < rotation; i++) [x, y] = [-y, x]
RECURSIVE rotatePosition(_, _)
rotatePosition(pos, rotation) ==
    IF rotation <= 0 THEN pos
    ELSE LET p == rotatePosition(pos, rotation - 1) IN Pos(-p.y, p.x)

getPieceShape(type, rotation) ==
    [i \in 1..Len(PIECE_SHAPES[type]) |-> rotatePosition(PIECE_SHAPES[type][i], rotation)]

\* the default arguments x = 4, y = 0 of createPiece
SPAWN_X == 4

SPAWN_Y == 0

createPiece(type) ==
    [type |-> type, position |-> Pos(SPAWN_X, SPAWN_Y), rotation |-> 0,
     shape |-> getPieceShape(type, 0)]

\* currentPiece = null
NullPiece == [type |-> Null, position |-> Pos(0, 0), rotation |-> 0, shape |-> <<>>]

\* (a variant of KickPiece that keeps the offsets of the old orientation)
KickPieceKeepsShape(piece, newRotation, kick) ==
    [type |-> piece.type,
     position |-> Pos(piece.position.x + kick[1], piece.position.y + kick[2]),
     rotation |-> newRotation,
     shape |-> piece.shape]

\* the test piece of kick number i of a rotation to newRotation
KickPiece(piece, newRotation, kick) ==
    [type |-> piece.type,
     position |-> Pos(piece.position.x + kick[1], piece.position.y + kick[2]),
     rotation |-> newRotation,
     shape |-> getPieceShape(piece.type, newRotation)]

\* (a variant of FirstFit that tries the kicks of the list from the last one)
RECURSIVE LastFit(_, _, _, _, _)
LastFit(piece, grid, newRotation, kicks, i) ==
    IF i > Len(kicks) THEN NullPiece
    ELSE IF ~hasCollision(grid, KickPiece(piece, newRotation, kicks[Len(kicks) + 1 - i]))
         THEN KickPiece(piece, newRotation, kicks[Len(kicks) + 1 - i])
         ELSE LastFit(piece, grid, newRotation, kicks, i + 1)

\* the first kick of the list, from number i on, whose test piece does not
\* collide; NullPiece when every one collides
RECURSIVE FirstFit(_, _, _, _, _)
FirstFit(piece, grid, newRotation, kicks, i) ==
    IF i > Len(kicks) THEN NullPiece
    ELSE IF ~hasCollision(grid, KickPiece(piece, newRotation, kicks[i]))
         THEN KickPiece(piece, newRotation, kicks[i])
         ELSE FirstFit(piece, grid, newRotation, kicks, i + 1)

\* (a variant of rotatePiece without the early return for the O piece)
rotatePieceTurnsO(piece, grid, clockwise) ==
    LET newRotation == IF clockwise THEN (piece.rotation + 1) % 4
                                    ELSE (piece.rotation + 3) % 4
        kickKey == <<IF piece.type = "I" THEN "I" ELSE "JLSTZ",
                     <<piece.rotation, newRotation>>>>
    IN  IF kickKey \notin DOMAIN SRS_KICKS THEN NullPiece
        ELSE FirstFit(piece, grid, newRotation, SRS_KICKS[kickKey], 1)

\* the piece returned, NullPiece for null
rotatePiece(piece, grid, clockwise) ==
    IF piece.type = "O" THEN piece
    ELSE LET newRotation == IF clockwise THEN (piece.rotation + 1) % 4
                                         ELSE (piece.rotation + 3) % 4
             kickKey == <<IF piece.type = "I" THEN "I" ELSE "JLSTZ",
                          <<piece.rotation, newRotation>>>>
         IN  IF kickKey \notin DOMAIN SRS_KICKS THEN NullPiece
             ELSE FirstFit(piece, grid, newRotation, SRS_KICKS[kickKey], 1)

\* BagSystem.refillBag: the Fisher-Yates loop over ['I','O','T','S','Z','J','L'];
\* draws[i] is the value of Math.floor(Math.random() * (i + 1)) at step i, in 0..i
BagOrder == <<"I", "O", "T", "S", "Z", "J", "L">>

\* (a variant of Swap that copies pieces[j] to pieces[i] and leaves pieces[j])
SwapOverwrites(pieces, i, j) == [pieces EXCEPT ![i + 1] = pieces[j + 1]]

Swap(pieces, i, j) == [pieces EXCEPT ![i + 1] = pieces[j + 1], ![j + 1] = pieces[i + 1]]

RECURSIVE ShuffleFrom(_, _, _)
ShuffleFrom(pieces, draws, i) ==
    IF i <= 0 THEN pieces
    ELSE ShuffleFrom(Swap(pieces, i, draws[i]), draws, i - 1)

refillBag(draws) == ShuffleFrom(BagOrder, draws, Len(BagOrder) - 1)

\* every outcome of the six random draws of one refill
AllDraws == {d \in [1..(Len(BagOrder) - 1) -> 0..(Len(BagOrder) - 1)] :
                \A i \in DOMAIN d : d[i] <= i}

\* getNext(): refill when the bag is used up, then return bag[index++].
\* NextOfBag is the value returned, getNext the game record afterwards.
BagAtNext(g, draws) == IF g.index >= Len(g.bag) THEN refillBag(draws) ELSE g.bag

IndexAtNext(g) == IF g.index >= Len(g.bag) THEN 0 ELSE g.index

NextOfBag(g, draws) == BagAtNext(g, draws)[IndexAtNext(g) + 1]

getNext(g, draws) ==
    [g EXCEPT !.bag = BagAtNext(g, draws), !.index = IndexAtNext(g) + 1,
              !.drawn = Append(g.drawn, NextOfBag(g, draws))]

----------------------------------------------------------------------------
(* unnamed/part_000, lines 2028-2357: class Game.                           *)
(* A game record g holds the fields of a Game and of the Board, ScoreSystem *)
(* and BagSystem it owns, and in g.ev what the running call has done so far *)
(* (its return value and the lockPiece, addLines and gravity steps inside   *)
(* it, and in g.ev.dispatched the events it has dispatched on the window).  *)
(* draws are the random draws a refill inside the call would use.           *)
(* Two more fields record the history the properties speak of: g.drawn, the *)
(* types the session's BagSystem has returned from getNext() so far, and    *)
(* g.idle, the time in ms that update() calls have simulated since the      *)
(* active piece last changed or a command was issued.                       *)

lockDelayTime == 500

\* lastDropPosition = null
NullPos == Pos(-100, -100)

NoEvents == [ret |-> FALSE, locked |-> 0, cleared |-> 0, spawned |-> 0,
             rows |-> 0, gravity |-> FALSE, dispatched |-> <<>>, ghost |-> NullPos]

\* Board.triggerLineClearEffect(): window.dispatchEvent of a 'lineClear' event
triggerLineClearEffect(g) == [g EXCEPT !.ev.dispatched = Append(@, "lineClear")]

Returning(g, value) == [g EXCEPT !.ev.ret = value]

\* new Game(): new Board(), new ScoreSystem(), new BagSystem(), getNext()
NewGame(draws) ==
    [grid |-> EmptyGrid,
     score |-> 0, level |-> 1, lines |-> 0,
     bag |-> refillBag(draws), index |-> 1,
     currentPiece |-> NullPiece,
     nextPieceType |-> refillBag(draws)[1],
     holdPieceType |-> Null,
     canHold |-> TRUE,
     state |-> MENU,
     dropTimer |-> 0,
     lockDelay |-> 0,
     lastDropPosition |-> NullPos,
     drawn |-> <<refillBag(draws)[1]>>,
     idle |-> 0,
     ev |-> NoEvents]

\* (a variant of spawnPiece that never ends the game)
spawnPieceNeverOver(g, draws) ==
    LET currentPiece == createPiece(g.nextPieceType)
        g1 == getNext(g, draws)
    IN  [g1 EXCEPT !.nextPieceType = NextOfBag(g, draws),
                   !.currentPiece = currentPiece,
                   !.canHold = TRUE,
                   !.lockDelay = 0,
                   !.lastDropPosition = NullPos,
                   !.ev.spawned = g.ev.spawned + 1]

\* (a variant of spawnPiece that leaves the lock delay as it is)
spawnPieceKeepsLockDelay(g, draws) ==
    LET currentPiece == createPiece(g.nextPieceType)
        g1 == getNext(g, draws)
    IN  [g1 EXCEPT !.nextPieceType = NextOfBag(g, draws),
                   !.currentPiece = currentPiece,
                   !.canHold = TRUE,
                   !.lastDropPosition = NullPos,
                   !.state = IF isGameOver(g.grid, currentPiece) THEN GAME_OVER ELSE g.state,
                   !.ev.spawned = g.ev.spawned + 1]

\* (a variant of spawnPiece that writes a piece that tops out into the grid)
spawnPiecePlacesTopOut(g, draws) ==
    LET currentPiece == createPiece(g.nextPieceType)
        g1 == getNext(g, draws)
    IN  [g1 EXCEPT !.nextPieceType = NextOfBag(g, draws),
                   !.currentPiece = currentPiece,
                   !.canHold = TRUE,
                   !.lockDelay = 0,
                   !.lastDropPosition = NullPos,
                   !.grid = IF isGameOver(g.grid, currentPiece)
                            THEN placePiece(g.grid, currentPiece) ELSE g.grid,
                   !.state = IF isGameOver(g.grid, currentPiece) THEN GAME_OVER ELSE g.state,
                   !.ev.spawned = g.ev.spawned + 1]

spawnPiece(g, draws) ==
    LET currentPiece == createPiece(g.nextPieceType)
        g1 == getNext(g, draws)
    IN  [g1 EXCEPT !.nextPieceType = NextOfBag(g, draws),
                   !.currentPiece = currentPiece,
                   !.canHold = TRUE,
                   !.lockDelay = 0,
                   !.lastDropPosition = NullPos,
                   !.state = IF isGameOver(g.grid, currentPiece) THEN GAME_OVER ELSE g.state,
                   !.ev.spawned = g.ev.spawned + 1]

\* (a variant of start that keeps the hold slot)
startKeepsHold(g, draws) ==
    LET g1 == [resetScore(g) EXCEPT !.grid = EmptyGrid,
                                   !.bag = refillBag(draws),
                                   !.index = 0,
                                   !.drawn = <<>>,
                                   !.canHold = TRUE,
                                   !.state = PLAYING]
        g2 == [getNext(g1, draws) EXCEPT !.nextPieceType = NextOfBag(g1, draws)]
    IN  Returning(spawnPiece(g2, draws), TRUE)

start(g, draws) ==
    LET g1 == [resetScore(g) EXCEPT !.grid = EmptyGrid,
                                   !.bag = refillBag(draws),
                                   !.index = 0,
                                   !.drawn = <<>>,
                                   !.holdPieceType = Null,
                                   !.canHold = TRUE,
                                   !.state = PLAYING]
        g2 == [getNext(g1, draws) EXCEPT !.nextPieceType = NextOfBag(g1, draws)]
    IN  Returning(spawnPiece(g2, draws), TRUE)

\* (a variant of Rejected that lets commands through after the game is over)
RejectedUnlessOver(g) == g.currentPiece = NullPiece \/ g.state \notin {PLAYING, GAME_OVER}

Rejected(g) == g.currentPiece = NullPiece \/ g.state # PLAYING

\* resetLockDelay()
resetLockDelay(g) ==
    [g EXCEPT !.lockDelay = 0,
              !.lastDropPosition = IF g.currentPiece # NullPiece
                                   THEN g.currentPiece.position ELSE NullPos]

\* (a variant of Move that leaves the lock delay running)
MoveKeepsLockDelay(g, dx) ==
    IF Rejected(g) THEN Returning(g, FALSE)
    ELSE LET newPiece == MovedBy(g.currentPiece, dx, 0)
         IN  IF ~hasCollision(g.grid, newPiece)
             THEN Returning([g EXCEPT !.currentPiece = newPiece], TRUE)
             ELSE Returning(g, FALSE)

\* moveLeft() is Move(g, -1), moveRight() is Move(g, 1)
Move(g, dx) ==
    IF Rejected(g) THEN Returning(g, FALSE)
    ELSE LET newPiece == MovedBy(g.currentPiece, dx, 0)
         IN  IF ~hasCollision(g.grid, newPiece)
             THEN Returning(resetLockDelay([g EXCEPT !.currentPiece = newPiece]), TRUE)
             ELSE Returning(g, FALSE)

moveLeft(g) == Move(g, -1)

moveRight(g) == Move(g, 1)

\* (a variant of lockPiece that credits one line for any clear)
lockPieceCreditsOne(g, draws) ==
    IF g.currentPiece = NullPiece THEN g
    ELSE LET placed == placePiece(g.grid, g.currentPiece)
             linesCleared == clearFullRowsCount(placed)
             g1 == [g EXCEPT !.grid = clearFullRows(placed),
                             !.ev.locked = g.ev.locked + 1,
                             !.ev.cleared = g.ev.cleared + linesCleared]
             g2 == IF linesCleared > 0
                   THEN addLines(triggerLineClearEffect(g1), 1)
                   ELSE g1
         IN  spawnPiece(g2, draws)

lockPiece(g, draws) ==
    IF g.currentPiece = NullPiece THEN g
    ELSE LET placed == placePiece(g.grid, g.currentPiece)
             linesCleared == clearFullRowsCount(placed)
             g1 == [g EXCEPT !.grid = clearFullRows(placed),
                             !.ev.locked = g.ev.locked + 1,
                             !.ev.cleared = g.ev.cleared + linesCleared]
             g2 == IF linesCleared > 0
                   THEN addLines(triggerLineClearEffect(g1), linesCleared)
                   ELSE g1
         IN  spawnPiece(g2, draws)

\* (a variant of softDrop that writes the piece into the grid at each step)
softDropStamps(g, draws) ==
    IF Rejected(g) THEN Returning(g, FALSE)
    ELSE LET newPiece == MovedBy(g.currentPiece, 0, 1)
         IN  IF ~hasCollision(g.grid, newPiece)
             THEN Returning(resetLockDelay(addSoftDrop(
                                [g EXCEPT !.currentPiece = newPiece,
                                          !.grid = placePiece(g.grid, g.currentPiece)], 1)),
                            TRUE)
             ELSE Returning(lockPiece(g, draws), FALSE)

\* (a variant of softDrop that leaves a blocked piece to the lock-delay timer)
softDropWaits(g, draws) ==
    IF Rejected(g) THEN Returning(g, FALSE)
    ELSE LET newPiece == MovedBy(g.currentPiece, 0, 1)
         IN  IF ~hasCollision(g.grid, newPiece)
             THEN Returning(resetLockDelay(addSoftDrop([g EXCEPT !.currentPiece = newPiece], 1)),
                            TRUE)
             ELSE Returning(g, FALSE)

softDrop(g, draws) ==
    IF Rejected(g) THEN Returning(g, FALSE)
    ELSE LET newPiece == MovedBy(g.currentPiece, 0, 1)
         IN  IF ~hasCollision(g.grid, newPiece)
             THEN Returning(resetLockDelay(addSoftDrop([g EXCEPT !.currentPiece = newPiece], 1)),
                            TRUE)
             ELSE Returning(lockPiece(g, draws), FALSE)

hardDrop(g, draws) ==
    IF Rejected(g) THEN Returning(g, FALSE)
    ELSE LET dropDistance == FirstCollidingY(g.grid, g.currentPiece) - g.currentPiece.position.y
         IN  IF dropDistance > 0
             THEN LET g1 == [g EXCEPT !.currentPiece = MovedBy(g.currentPiece, 0, dropDistance - 1),
                                      !.ev.rows = dropDistance - 1]
                  IN  Returning(lockPiece(addHardDrop(g1, dropDistance - 1), draws), TRUE)
             ELSE Returning(g, FALSE)

\* rotateClockwise() is Rotate(g, TRUE), rotateCounterClockwise() is Rotate(g, FALSE)
Rotate(g, clockwise) ==
    IF Rejected(g) THEN Returning(g, FALSE)
    ELSE LET rotated == rotatePiece(g.currentPiece, g.grid, clockwise)
         IN  IF rotated # NullPiece
             THEN Returning(resetLockDelay([g EXCEPT !.currentPiece = rotated]), TRUE)
             ELSE Returning(g, FALSE)

rotateClockwise(g) == Rotate(g, TRUE)

rotateCounterClockwise(g) == Rotate(g, FALSE)

\* (a variant of SwapHold that puts the held type where the old piece was)
SwapHoldInPlace(g) ==
    [g EXCEPT !.holdPieceType = g.currentPiece.type,
              !.currentPiece = [createPiece(g.holdPieceType)
                                   EXCEPT !.position = g.currentPiece.position],
              !.canHold = FALSE]

\* the else branch of hold(): swap the held type with the current piece
SwapHold(g) ==
    [g EXCEPT !.holdPieceType = g.currentPiece.type,
              !.currentPiece = createPiece(g.holdPieceType),
              !.canHold = FALSE]

\* (a variant of hold that does not ask canHold)
holdUnlimited(g, draws) ==
    IF Rejected(g) THEN Returning(g, FALSE)
    ELSE LET g1 == IF g.holdPieceType = Null
                   THEN spawnPiece([g EXCEPT !.holdPieceType = g.currentPiece.type], draws)
                   ELSE SwapHold(g)
         IN  Returning([g1 EXCEPT !.canHold = FALSE], TRUE)

\* (a variant of hold that writes the piece it puts away into the grid)
holdPlacesPiece(g, draws) ==
    IF Rejected(g) \/ ~g.canHold THEN Returning(g, FALSE)
    ELSE LET g1 == IF g.holdPieceType = Null
                   THEN spawnPiece([g EXCEPT !.holdPieceType = g.currentPiece.type,
                                             !.grid = placePiece(g.grid, g.currentPiece)], draws)
                   ELSE SwapHold(g)
         IN  Returning([g1 EXCEPT !.canHold = FALSE], TRUE)

hold(g, draws) ==
    IF Rejected(g) \/ ~g.canHold THEN Returning(g, FALSE)
    ELSE LET g1 == IF g.holdPieceType = Null
                   THEN spawnPiece([g EXCEPT !.holdPieceType = g.currentPiece.type], draws)
                   ELSE SwapHold(g)
         IN  Returning([g1 EXCEPT !.canHold = FALSE], TRUE)

\* Math.min(deltaTime, 100)
PreciseDeltaTime(deltaTime) == Min(deltaTime, 100)

\* the automatic drop at the end of update()
Gravity(g, preciseDeltaTime, draws) ==
    LET g1 == [g EXCEPT !.dropTimer = g.dropTimer + preciseDeltaTime]
    IN  IF g1.dropTimer >= getDropInterval(g1.level)
        THEN softDrop([g1 EXCEPT !.dropTimer = 0, !.ev.gravity = TRUE], draws)
        ELSE g1

\* (a variant of update that locks only once the lock delay has passed 500 ms)
updateLocksLate(g, deltaTime, draws) ==
    IF g.state # PLAYING \/ g.currentPiece = NullPiece THEN g
    ELSE IF deltaTime > 1000 THEN g
    ELSE LET preciseDeltaTime == PreciseDeltaTime(deltaTime)
         IN  IF g.lastDropPosition # NullPos
                /\ g.currentPiece.position.x = g.lastDropPosition.x
                /\ g.currentPiece.position.y = g.lastDropPosition.y
             THEN LET g1 == [g EXCEPT !.lockDelay = g.lockDelay + preciseDeltaTime]
                  IN  IF g1.lockDelay > lockDelayTime
                      THEN lockPiece(g1, draws)
                      ELSE Gravity(g1, preciseDeltaTime, draws)
             ELSE Gravity(resetLockDelay(g), preciseDeltaTime, draws)

\* (a variant of update that simulates a frame of any length)
updateAnyFrame(g, deltaTime, draws) ==
    IF g.state # PLAYING \/ g.currentPiece = NullPiece THEN g
    ELSE LET preciseDeltaTime == PreciseDeltaTime(deltaTime)
         IN  IF g.lastDropPosition # NullPos
                /\ g.currentPiece.position.x = g.lastDropPosition.x
                /\ g.currentPiece.position.y = g.lastDropPosition.y
             THEN LET g1 == [g EXCEPT !.lockDelay = g.lockDelay + preciseDeltaTime]
                  IN  IF g1.lockDelay >= lockDelayTime
                      THEN lockPiece(g1, draws)
                      ELSE Gravity(g1, preciseDeltaTime, draws)
             ELSE Gravity(resetLockDelay(g), preciseDeltaTime, draws)

\* (a variant of update that runs while the session is paused)
updateWhilePaused(g, deltaTime, draws) ==
    IF g.state \notin {PLAYING, PAUSED} \/ g.currentPiece = NullPiece THEN g
    ELSE IF deltaTime > 1000 THEN g
    ELSE LET preciseDeltaTime == PreciseDeltaTime(deltaTime)
         IN  IF g.lastDropPosition # NullPos
                /\ g.currentPiece.position.x = g.lastDropPosition.x
                /\ g.currentPiece.position.y = g.lastDropPosition.y
             THEN LET g1 == [g EXCEPT !.lockDelay = g.lockDelay + preciseDeltaTime]
                  IN  IF g1.lockDelay >= lockDelayTime
                      THEN lockPiece(g1, draws)
                      ELSE Gravity(g1, preciseDeltaTime, draws)
             ELSE Gravity(resetLockDelay(g), preciseDeltaTime, draws)

update(g, deltaTime, draws) ==
    IF g.state # PLAYING \/ g.currentPiece = NullPiece THEN g
    ELSE IF deltaTime > 1000 THEN g
    ELSE LET preciseDeltaTime == PreciseDeltaTime(deltaTime)
         IN  IF g.lastDropPosition # NullPos
                /\ g.currentPiece.position.x = g.lastDropPosition.x
                /\ g.currentPiece.position.y = g.lastDropPosition.y
             THEN LET g1 == [g EXCEPT !.lockDelay = g.lockDelay + preciseDeltaTime]
                  IN  IF g1.lockDelay >= lockDelayTime
                      THEN lockPiece(g1, draws)
                      ELSE Gravity(g1, preciseDeltaTime, draws)
             ELSE Gravity(resetLockDelay(g), preciseDeltaTime, draws)

\* (a variant of togglePause that resumes a game that is over)
togglePauseRevives(g) ==
    IF g.state = PLAYING THEN [g EXCEPT !.state = PAUSED]
    ELSE IF g.state \in {PAUSED, GAME_OVER} THEN [g EXCEPT !.state = PLAYING]
    ELSE g

togglePause(g) ==
    IF g.state = PLAYING THEN [g EXCEPT !.state = PAUSED]
    ELSE IF g.state = PAUSED THEN [g EXCEPT !.state = PLAYING]
    ELSE g

----------------------------------------------------------------------------
(* The state: the fields of the Game and of the objects it owns, the call   *)
(* that was made last with what it did (last), and the number of calls the  *)
(* exploration may still make (budget).                                     *)

VARIABLES grid, score, level, lines, bag, index, currentPiece, nextPieceType,
          holdPieceType, canHold, state, dropTimer, lockDelay, lastDropPosition,
          drawn, idle, last, budget,
          inputQueue, isProcessing, frames, pressed, delivered

\* the fields of the InputHandler of the game (inputQueue, isProcessing), the
\* number of requestAnimationFrame callbacks that are waiting, each to resume
\* one call of processInputQueue (frames), the keys handleKeyPress was called
\* with (pressed) and the commands called on the Game from the queue (delivered)
inputVars == <<inputQueue, isProcessing, frames, pressed, delivered>>

vars == <<grid, score, level, lines, bag, index, currentPiece, nextPieceType,
          holdPieceType, canHold, state, dropTimer, lockDelay, lastDropPosition,
          drawn, idle, last, budget,
          inputQueue, isProcessing, frames, pressed, delivered>>

\* the current state as a game record, no call running
Cur ==
    [grid |-> grid, score |-> score, level |-> level, lines |-> lines,
     bag |-> bag, index |-> index, currentPiece |-> currentPiece,
     nextPieceType |-> nextPieceType, holdPieceType |-> holdPieceType,
     canHold |-> canHold, state |-> state, dropTimer |-> dropTimer,
     lockDelay |-> lockDelay, lastDropPosition |-> lastDropPosition,
     drawn |-> drawn, idle |-> idle,
     ev |-> NoEvents]

\* g.idle after a call that took the game from record g0 to g1: an update()
\* that is not ignored and leaves the active piece as it is adds its
\* deltaTime, any other call starts the count again
IdleAfter(g0, g1, isUpdate, deltaTime) ==
    IF isUpdate /\ g1.currentPiece = g0.currentPiece /\ g1.ev.locked = 0
    THEN (IF g0.state = PLAYING /\ deltaTime <= 1000 THEN g0.idle + deltaTime ELSE g0.idle)
    ELSE 0

\* the game becomes g, reached by the call op(arg), one call of the budget
GameBecomes(g, op, arg) ==
    /\ budget' = budget - 1
    /\ grid' = g.grid
    /\ score' = g.score
    /\ level' = g.level
    /\ lines' = g.lines
    /\ bag' = g.bag
    /\ index' = g.index
    /\ currentPiece' = g.currentPiece
    /\ nextPieceType' = g.nextPieceType
    /\ holdPieceType' = g.holdPieceType
    /\ canHold' = g.canHold
    /\ state' = g.state
    /\ dropTimer' = g.dropTimer
    /\ lockDelay' = g.lockDelay
    /\ lastDropPosition' = g.lastDropPosition
    /\ drawn' = g.drawn
    /\ idle' = IdleAfter(Cur, g, op = "update", arg)
    /\ last' = [op |-> op, arg |-> arg, ret |-> g.ev.ret, locked |-> g.ev.locked,
                cleared |-> g.ev.cleared, spawned |-> g.ev.spawned,
                rows |-> g.ev.rows, gravity |-> g.ev.gravity,
                dispatched |-> g.ev.dispatched, ghost |-> g.ev.ghost]

\* the state becomes g, reached by the call op(arg) made on the Game itself
Becomes(g, op, arg) == GameBecomes(g, op, arg) /\ UNCHANGED inputVars

\* the state is g, before any call
StateIs(g) ==
    /\ grid = g.grid
    /\ score = g.score
    /\ level = g.level
    /\ lines = g.lines
    /\ bag = g.bag
    /\ index = g.index
    /\ currentPiece = g.currentPiece
    /\ nextPieceType = g.nextPieceType
    /\ holdPieceType = g.holdPieceType
    /\ canHold = g.canHold
    /\ state = g.state
    /\ dropTimer = g.dropTimer
    /\ lockDelay = g.lockDelay
    /\ lastDropPosition = g.lastDropPosition
    /\ drawn = g.drawn
    /\ idle = g.idle
    /\ last = [op |-> "none", arg |-> 0, ret |-> FALSE, locked |-> 0, cleared |-> 0,
               spawned |-> 0, rows |-> 0, gravity |-> FALSE, dispatched |-> <<>>,
               ghost |-> NullPos]
    /\ inputQueue = <<>>
    /\ isProcessing = FALSE
    /\ frames = 0
    /\ pressed = <<>>
    /\ delivered = <<>>

----------------------------------------------------------------------------
(* Bounds of the exploration *)

\* calls explored from each initial state
MaxSteps == 3

\* outcomes of the shuffle considered at a refill: the first MaxShuffles of
\* ShuffleOutcomes (the orders IOTSZJL, OTSZIJL, LJZSTOI, STOZIJL)
MaxShuffles == 2

ShuffleOutcomes ==
    << <<1, 2, 3, 4, 5, 6>>, <<0, 0, 0, 0, 5, 6>>, <<1, 2, 3, 2, 1, 0>>, <<1, 1, 0, 0, 5, 6>> >>

GameDraws == {ShuffleOutcomes[i] : i \in 1..Min(MaxShuffles, Len(ShuffleOutcomes))}

\* the frame times passed to update(): a 60 Hz frame, the 100 ms cap, a slow
\* frame above the cap, and one above the 1000 ms limit
DeltaTimes == {16, 100, 500, 1001}

----------------------------------------------------------------------------
(* Plays: a sequence of calls made on a new Game.  The initial states of    *)
(* the game specification are the new Game and the states these plays end   *)
(* in, so each of them is a state the program reaches.                      *)

Rep(c, n) == [i \in 1..n |-> c]

\* the call a letter of a play stands for; "U" is update(100)
Called(g0, c, draws) ==
    CASE c = "S" -> start(g0, draws)
      [] c = "L" -> moveLeft(g0)
      [] c = "R" -> moveRight(g0)
      [] c = "CW" -> rotateClockwise(g0)
      [] c = "CCW" -> rotateCounterClockwise(g0)
      [] c = "SD" -> softDrop(g0, draws)
      [] c = "HD" -> hardDrop(g0, draws)
      [] c = "H" -> hold(g0, draws)
      [] c = "P" -> togglePause(g0)
      [] c = "U" -> update(g0, 100, draws)

\* one call of a play
Call(g, c, draws) ==
    LET g0 == [g EXCEPT !.ev = NoEvents]
        g1 == Called(g0, c, draws)
    IN  [g1 EXCEPT !.idle = IdleAfter(g0, g1, c = "U", 100)]

\* (the test of g1.state only makes the evaluation proceed call by call)
RECURSIVE Play(_, _, _)
Play(g, calls, draws) ==
    IF calls = <<>> THEN g
    ELSE LET g1 == Call(g, Head(calls), draws)
         IN  IF g1.state # Null THEN Play(g1, Tail(calls), draws) ELSE g1

\* a stack up to row 1 under the spawn cells, the first O held, an I active
TallStackPlay ==
    [draws |-> ShuffleOutcomes[2], calls |-> <<"S", "H">> \o Rep("HD", 10)]

\* rows 18 and 19 lack columns 0..2 and 0: the active J, above column 0..2,
\* completes both when it lands
DoubleClearPlay ==
    [draws |-> ShuffleOutcomes[1],
     calls |-> <<"S", "L", "L", "HD", "L", "HD">>
               \o <<"CW", "CW", "R", "R", "R", "R", "HD">>
               \o <<"CW", "R", "R", "R", "R", "R", "R", "HD">>
               \o <<"CW", "R", "R", "R", "HD">>
               \o <<"L", "L", "L">>]

\* row 19 lacks column 9: the active S, upright above columns 8..9, completes it
SingleClearPlay ==
    [draws |-> ShuffleOutcomes[1],
     calls |-> <<"S", "L", "L", "L", "HD", "HD">>
               \o <<"CW", "CW", "R", "R", "R", "R", "HD">>
               \o <<"CW", "R", "R", "R", "R", "R", "R">>]

\* the same S soft-dropped 17 rows: it rests in the gap and completes row 19
\* when it locks
RestingPlay ==
    [draws |-> SingleClearPlay.draws, calls |-> SingleClearPlay.calls \o Rep("SD", 17)]

\* the same S left alone on the floor for 400 ms
RestingIdlePlay ==
    [draws |-> RestingPlay.draws, calls |-> RestingPlay.calls \o Rep("U", 4)]

\* the first piece in mid-air at level 1, the drop timer at 900 of 1000 ms
GravityDuePlay ==
    [draws |-> ShuffleOutcomes[1],
     calls |-> <<"S">> \o Rep("U", 5) \o <<"L">> \o Rep("U", 4) \o <<"R">>]

\* the same piece soft-dropped to the floor, the drop timer still at 900 ms
FloorGravityDuePlay ==
    [draws |-> GravityDuePlay.draws, calls |-> GravityDuePlay.calls \o Rep("SD", 19)]

\* the first piece left alone in mid-air for 500 ms: the lock delay is at 400 ms
IdlePlay ==
    [draws |-> ShuffleOutcomes[1], calls |-> <<"S">> \o Rep("U", 5)]

Plays == {TallStackPlay, DoubleClearPlay, SingleClearPlay, RestingPlay, RestingIdlePlay,
          GravityDuePlay, FloorGravityDuePlay, IdlePlay}

----------------------------------------------------------------------------
(* The game specification: every public method of Game, from a new Game or  *)
(* from the end of a play.                                                  *)

Init ==
    /\ budget = MaxSteps
    /\ \/ \E draws \in GameDraws : StateIs(NewGame(draws))
       \/ \E p \in Plays : StateIs(Play(NewGame(p.draws), p.calls, p.draws))

Start ==
    /\ budget > 0
    /\ \E draws \in GameDraws : Becomes(start(Cur, draws), "start", 0)

MoveLeft ==
    /\ budget > 0
    /\ Becomes(moveLeft(Cur), "moveLeft", 0)

MoveRight ==
    /\ budget > 0
    /\ Becomes(moveRight(Cur), "moveRight", 0)

SoftDrop ==
    /\ budget > 0
    /\ \E draws \in GameDraws : Becomes(softDrop(Cur, draws), "softDrop", 0)

HardDrop ==
    /\ budget > 0
    /\ \E draws \in GameDraws : Becomes(hardDrop(Cur, draws), "hardDrop", 0)

RotateClockwise ==
    /\ budget > 0
    /\ Becomes(rotateClockwise(Cur), "rotateClockwise", 0)

RotateCounterClockwise ==
    /\ budget > 0
    /\ Becomes(rotateCounterClockwise(Cur), "rotateCounterClockwise", 0)

Hold ==
    /\ budget > 0
    /\ \E draws \in GameDraws : Becomes(hold(Cur, draws), "hold", 0)

TogglePause ==
    /\ budget > 0
    /\ Becomes(togglePause(Cur), "togglePause", 0)

Update ==
    /\ budget > 0
    /\ \E deltaTime \in DeltaTimes, draws \in GameDraws :
           Becomes(update(Cur, deltaTime, draws), "update", deltaTime)

Next ==
    \/ Start
    \/ MoveLeft
    \/ MoveRight
    \/ SoftDrop
    \/ HardDrop
    \/ RotateClockwise
    \/ RotateCounterClockwise
    \/ Hold
    \/ TogglePause
    \/ Update

Spec == Init /\ [][Next]_vars

----------------------------------------------------------------------------
(* The score specification: the public methods of ScoreSystem, called on    *)
(* the ScoreSystem of a new Game after any number of four-line clears.      *)

\* four-line clears made before the first state
MaxTetrises == 78

\* the arguments the Game calls addSoftDrop and addHardDrop with: one row per
\* soft drop, 0 to 19 rows per hard drop
SoftDropBlocks == {1}

HardDropBlocks == {0, 1, 19}

\* (the test of g1.lines only makes the evaluation proceed call by call)
RECURSIVE AfterTetrises(_, _)
AfterTetrises(g, k) ==
    IF k <= 0 THEN g
    ELSE LET g1 == addLines(g, 4)
         IN  IF g1.lines > 0 THEN AfterTetrises(g1, k - 1) ELSE g1

InitScore ==
    /\ budget = MaxSteps
    /\ \E k \in 0..MaxTetrises : StateIs(AfterTetrises(NewGame(ShuffleOutcomes[1]), k))

AddLines ==
    /\ budget > 0
    /\ \E linesCleared \in 1..4 : Becomes(addLines(Cur, linesCleared), "addLines", linesCleared)

AddSoftDrop ==
    /\ budget > 0
    /\ \E blocks \in SoftDropBlocks : Becomes(addSoftDrop(Cur, blocks), "addSoftDrop", blocks)

AddHardDrop ==
    /\ budget > 0
    /\ \E blocks \in HardDropBlocks : Becomes(addHardDrop(Cur, blocks), "addHardDrop", blocks)

ResetScore ==
    /\ budget > 0
    /\ Becomes(resetScore(Cur), "reset", 0)

NextScore ==
    \/ AddLines
    \/ AddSoftDrop
    \/ AddHardDrop
    \/ ResetScore

SpecScore == InitScore /\ [][NextScore]_vars

----------------------------------------------------------------------------
(* The board specification: Board.clearRows on the grids lockPiece calls    *)
(* clearFullRows on (the grid of a play with its active piece placed where  *)
(* it lands), with any list of distinct rows among the lowest ones.         *)

\* calls of clearRows explored from each grid
MaxClears == 1

\* the longest list of rows passed to clearRows
MaxClearRows == 2

\* the rows passed are among the lowest ClearDepth rows
ClearDepth == 5

Landed(g) ==
    placePiece(g.grid, [g.currentPiece EXCEPT !.position = getGhostPosition(g.grid, g.currentPiece)])

LandedGrids ==
    {EmptyGrid} \cup {Landed(Play(NewGame(p.draws), p.calls, p.draws)) : p \in Plays}

RowLists ==
    {rows \in UNION {[1..n -> (BOARD_HEIGHT - ClearDepth)..(BOARD_HEIGHT - 1)] : n \in 0..MaxClearRows} :
        \A i, j \in DOMAIN rows : i # j => rows[i] # rows[j]}

InitBoard ==
    /\ budget = MaxClears
    /\ \E g \in LandedGrids : StateIs([NewGame(ShuffleOutcomes[1]) EXCEPT !.grid = g])

ClearRows ==
    /\ budget > 0
    /\ \E rows \in RowLists : Becomes([Cur EXCEPT !.grid = clearRows(grid, rows)], "clearRows", rows)

NextBoard == ClearRows

SpecBoard == InitBoard /\ [][NextBoard]_vars

----------------------------------------------------------------------------
(* The rotation specification: rotateClockwise and rotateCounterClockwise   *)
(* (rotatePiece with the wall kicks) on a session whose active piece is any *)
(* piece, at any place and in any orientation where it fits, over the grid  *)
(* of a play.                                                               *)

PlayGrids == {EmptyGrid} \cup {Play(NewGame(p.draws), p.calls, p.draws).grid : p \in Plays}

\* a piece as createPiece and rotatePiece build it
PieceAt(type, rotation, position) ==
    [type |-> type, position |-> position, rotation |-> rotation,
     shape |-> getPieceShape(type, rotation)]

\* the pieces that fit on grid g; an O piece is never turned
PiecesOn(g) ==
    {p \in {PieceAt(t, r, Pos(x, y)) : t \in PieceTypes, r \in 0..3,
                                       x \in -2..(BOARD_WIDTH + 1), y \in -2..BOARD_HEIGHT} :
        (p.type = "O" => p.rotation = 0) /\ ~hasCollision(g, p)}

InitPiece ==
    /\ budget = MaxSteps
    /\ \E g \in PlayGrids : \E p \in PiecesOn(g) :
          StateIs([start(NewGame(ShuffleOutcomes[1]), ShuffleOutcomes[1])
                      EXCEPT !.grid = g, !.currentPiece = p, !.ev = NoEvents])

NextPiece ==
    \/ RotateClockwise
    \/ RotateCounterClockwise

SpecPiece == InitPiece /\ [][NextPiece]_vars

----------------------------------------------------------------------------
(* The shape specification: createPiece and getPieceShape on every piece    *)
(* type and rotation.  The piece built is kept in currentPiece.             *)

\* calls explored from the first state
MaxShapeCalls == 4

InitShape ==
    /\ budget = MaxShapeCalls
    /\ StateIs(NewGame(ShuffleOutcomes[1]))

CreatePiece ==
    /\ budget > 0
    /\ \E type \in PieceTypes :
          Becomes([Cur EXCEPT !.currentPiece = createPiece(type)], "createPiece", type)

GetPieceShape ==
    /\ budget > 0
    /\ currentPiece # NullPiece
    /\ \E rotation \in 0..3 :
          Becomes([Cur EXCEPT !.currentPiece.rotation = rotation,
                              !.currentPiece.shape = getPieceShape(currentPiece.type, rotation)],
                  "getPieceShape", rotation)

NextShape ==
    \/ CreatePiece
    \/ GetPieceShape

SpecShape == InitShape /\ [][NextShape]_vars

----------------------------------------------------------------------------
(* The bag specification: getNext() on the BagSystem of a new Game, for     *)
(* every outcome of the constructor's shuffle, and the calls of a session   *)
(* that take pieces from the bag (start, then hardDrop and hold).           *)

\* calls explored from each new Game
MaxDraws == 8

InitBag ==
    /\ budget = MaxDraws
    /\ \E draws \in AllDraws : StateIs(NewGame(draws))

\* getNext() on a bag no session is using
GetNext ==
    /\ budget > 0
    /\ state = MENU
    /\ \E draws \in GameDraws : Becomes(getNext(Cur, draws), "getNext", 0)

\* the calls of a started session
SessionHardDrop == state # MENU /\ HardDrop

SessionHold == state # MENU /\ Hold

NextBag ==
    \/ GetNext
    \/ Start
    \/ SessionHardDrop
    \/ SessionHold

SpecBag == InitBag /\ [][NextBag]_vars

----------------------------------------------------------------------------
(* The drop specification: a session started on a new Game, for every       *)
(* outcome of the shuffle of start(), in which the player does nothing but  *)
(* hard drop, and goes on doing so.                                         *)

\* hard drops explored from each started session
MaxDrops == 16

\* outcomes of the shuffle of start() considered
MaxOrders == 200

RECURSIVE Factorial(_)
Factorial(n) == IF n <= 1 THEN 1 ELSE n * Factorial(n - 1)

\* the n-th outcome of the six draws of a refill, n in 0..5039
DrawsNumbered(n) == [i \in 1..(Len(BagOrder) - 1) |-> (n \div Factorial(i)) % (i + 1)]

\* MaxOrders outcomes spread over all of them
DropDraws ==
    {DrawsNumbered((k * 1009) % Factorial(Len(BagOrder))) : k \in 0..(MaxOrders - 1)}

InitDrops ==
    /\ budget = MaxDrops
    /\ \E draws \in DropDraws : StateIs(start(NewGame(ShuffleOutcomes[1]), draws))

NextDrops == HardDrop

\* a further call is made: NextDrops is enabled exactly when budget > 0, and
\* its steps are the steps that take one call from the budget
CallMade == budget > 0 /\ budget' = budget - 1

\* the player goes on dropping: a call that can be made is made in the end
SpecDrops == InitDrops /\ [][NextDrops]_vars /\ WF_budget(CallMade)

----------------------------------------------------------------------------
(* The query specification: Board.hasCollision and Board.getGhostPosition   *)
(* on the grid of a play and any piece on or around it, colliding or not.   *)
(* The value hasCollision returns is kept in last.ret, the position         *)
(* getGhostPosition returns in last.ghost.                                  *)

\* queries explored from each grid and piece
MaxQueries == 1

\* the pieces on and around the grid
PiecesAround ==
    {p \in {PieceAt(t, r, Pos(x, y)) : t \in PieceTypes, r \in 0..3,
                                       x \in -1..BOARD_WIDTH, y \in -1..BOARD_HEIGHT} :
        p.type = "O" => p.rotation = 0}

InitQuery ==
    /\ budget = MaxQueries
    /\ \E g \in PlayGrids : \E p \in PiecesAround :
          StateIs([start(NewGame(ShuffleOutcomes[1]), ShuffleOutcomes[1])
                      EXCEPT !.grid = g, !.currentPiece = p, !.ev = NoEvents])

HasCollision ==
    /\ budget > 0
    /\ Becomes(Returning(Cur, hasCollision(grid, currentPiece)), "hasCollision", 0)

GetGhostPosition ==
    /\ budget > 0
    /\ Becomes([Cur EXCEPT !.ev.ghost = getGhostPosition(grid, currentPiece)],
               "getGhostPosition", 0)

NextQuery ==
    \/ HasCollision
    \/ GetGhostPosition

SpecQuery == InitQuery /\ [][NextQuery]_vars

----------------------------------------------------------------------------
(* input.ts, lines 92-162: InputHandler.handleKeyPress and                  *)
(* processInputQueue.  An input record h holds the fields inputQueue and    *)
(* isProcessing of the handler, the number of animation-frame callbacks     *)
(* that wait to resume a call of processInputQueue (frames), the Game       *)
(* (game) and the commands called on it from the queue (calls).  JavaScript *)
(* runs a handler to its end or to its await before the next one starts:    *)
(* a key can be pressed before or after the part of processInputQueue that  *)
(* follows the await, never inside it.                                      *)

\* the switch of processInputQueue: the command of the Game a key stands for
\* ("debug" for the debug callback, Null for a key with no case)
KeyCommand(key) ==
    CASE key = "ArrowLeft" -> "L"
      [] key = "ArrowRight" -> "R"
      [] key = "ArrowDown" -> "SD"
      [] key \in {"ArrowUp", " "} -> "HD"
      [] key \in {"z", "Z"} -> "CCW"
      [] key \in {"x", "X"} -> "CW"
      [] key \in {"c", "C"} -> "H"
      [] key \in {"p", "P", "Escape"} -> "P"
      [] key \in {"d", "D"} -> "debug"
      [] OTHER -> Null

GameCommands == {"L", "R", "SD", "HD", "CCW", "CW", "H", "P"}

\* (a variant of processInputQueue that starts whenever the queue holds a key)
processInputQueueUnguarded(h) ==
    IF h.inputQueue = <<>> THEN h
    ELSE [h EXCEPT !.isProcessing = TRUE, !.frames = @ + 1]

\* processInputQueue() up to its await
processInputQueue(h) ==
    IF h.isProcessing \/ h.inputQueue = <<>> THEN h
    ELSE [h EXCEPT !.isProcessing = TRUE, !.frames = @ + 1]

handleKeyPress(h, key) ==
    processInputQueue([h EXCEPT !.inputQueue = Append(@, key)])

\* one turn of the while loop: shift() a key and call its command
DispatchKey(h, draws) ==
    LET key == Head(h.inputQueue)
        h1 == [h EXCEPT !.inputQueue = Tail(@)]
    IN  IF KeyCommand(key) \in GameCommands
        THEN [h1 EXCEPT !.game = Called(h.game, KeyCommand(key), draws),
                        !.calls = Append(@, KeyCommand(key))]
        ELSE h1

\* (the test of h1.inputQueue only makes the evaluation proceed key by key)
RECURSIVE DrainQueue(_, _)
DrainQueue(h, draws) ==
    IF h.inputQueue = <<>> THEN h
    ELSE LET h1 == DispatchKey(h, draws)
         IN  IF Len(h1.inputQueue) >= 0 THEN DrainQueue(h1, draws) ELSE h1

\* processInputQueue() from its await on, resumed by an animation frame
processInputQueueResumed(h, draws) ==
    [DrainQueue([h EXCEPT !.frames = @ - 1], draws) EXCEPT !.isProcessing = FALSE]

----------------------------------------------------------------------------
(* The input specification: keys pressed on a started game and animation    *)
(* frames, in any order.                                                    *)

\* key presses and animation frames explored from each started game
MaxInputs == 4

Keys == {"ArrowLeft", " ", "c", "p", "d"}

\* the handler as an input record, no handler running
CurInput ==
    [inputQueue |-> inputQueue, isProcessing |-> isProcessing, frames |-> frames,
     game |-> Cur, calls |-> delivered]

InputBecomes(h) ==
    /\ inputQueue' = h.inputQueue
    /\ isProcessing' = h.isProcessing
    /\ frames' = h.frames
    /\ delivered' = h.calls

InitInput ==
    /\ budget = MaxInputs
    /\ \E draws \in GameDraws : StateIs(start(NewGame(draws), draws))

\* handleKeyPress(key), called by handleKeyDown and by update() for a repeat
KeyPress ==
    /\ budget > 0
    /\ \E key \in Keys :
          /\ pressed' = Append(pressed, key)
          /\ \E h \in {handleKeyPress(CurInput, key)} :
                InputBecomes(h) /\ GameBecomes(h.game, "handleKeyPress", 0)

\* an animation frame resumes a call of processInputQueue that waits for one;
\* last.arg is the number of keys it finds in the queue
FrameResolved ==
    /\ budget > 0
    /\ frames > 0
    /\ pressed' = pressed
    /\ \E draws \in GameDraws :
          \E h \in {processInputQueueResumed(CurInput, draws)} :
             InputBecomes(h) /\ GameBecomes(h.game, "processInputQueue", Len(inputQueue))

NextInput ==
    \/ KeyPress
    \/ FrameResolved

SpecInput == InitInput /\ [][NextInput]_vars

----------------------------------------------------------------------------
(* Properties *)

\* the cells are inside the grid and empty in grid g
CellsFree(g, cells) ==
    \A i \in DOMAIN cells :
        /\ cells[i].x >= 0 /\ cells[i].x < BOARD_WIDTH
        /\ cells[i].y >= 0 /\ cells[i].y < BOARD_HEIGHT
        /\ g[cells[i].y + 1][cells[i].x + 1] = Null

\* grid g with the cells of the piece holding its type
GridWith(g, piece) ==
    [y \in 1..BOARD_HEIGHT |-> [x \in 1..BOARD_WIDTH |->
        IF \E i \in DOMAIN piece.shape : PieceCells(piece)[i] = Pos(x - 1, y - 1)
        THEN piece.type ELSE g[y][x]]]

FullRowsOf(g) == {y \in 1..BOARD_HEIGHT : \A x \in 1..BOARD_WIDTH : g[y][x] # Null}

Playable == state = PLAYING /\ currentPiece # NullPiece

\* the grid clearRows(rows) is to produce: an empty row per listed row, then
\* the rows of g that are not listed, top to bottom
RowsRemoved(g, rows) ==
    LET kept == SelectSeq(RowIndices, LAMBDA y : \A i \in DOMAIN rows : rows[i] # y)
    IN  [i \in 1..Len(rows) |-> EmptyRow] \o [i \in 1..Len(kept) |-> g[kept[i] + 1]]

\* the base score of a clear of n lines
PointsFor(n) == CASE n = 1 -> 100 [] n = 2 -> 300 [] n = 3 -> 500 [] n = 4 -> 800

\* the number of rows the piece can fall before it collides
RowsToFall(g, piece) ==
    IF ~CellsFree(g, PieceCells(piece)) THEN 0
    ELSE CHOOSE n \in 0..BOARD_HEIGHT :
            /\ \A k \in 0..n : CellsFree(g, PieceCells(MovedBy(piece, 0, k)))
            /\ ~CellsFree(g, PieceCells(MovedBy(piece, 0, n + 1)))

\* the piece cannot go one row down on grid g
Resting(g, piece) == ~CellsFree(g, PieceCells(MovedBy(piece, 0, 1)))

\* the piece has a cell in the bottom row
OnFloor(piece) == \E i \in DOMAIN piece.shape : PieceCells(piece)[i].y = BOARD_HEIGHT - 1

\* a piece with these offsets, placed at (px, py), is inside grid g and on
\* empty cells
ShapeFree(g, shape, px, py) ==
    \A i \in DOMAIN shape :
        /\ px + shape[i].x >= 0 /\ px + shape[i].x < BOARD_WIDTH
        /\ py + shape[i].y >= 0 /\ py + shape[i].y < BOARD_HEIGHT
        /\ g[py + shape[i].y + 1][px + shape[i].x + 1] = Null

\* offset p turned n times by (x, y) -> (-y, x)
Turned(p, n) ==
    CASE n = 0 -> Pos(p.x, p.y)
      [] n = 1 -> Pos(-p.y, p.x)
      [] n = 2 -> Pos(-p.x, -p.y)
      [] n = 3 -> Pos(p.y, -p.x)

\* the set of the elements of a sequence
Elements(seq) == {seq[i] : i \in DOMAIN seq}

\* the k-th group of seven of a sequence of draws (k = 0 is the first), as far
\* as it has been drawn
Window(seq, k) == SubSeq(seq, 7 * k + 1, Min(7 * k + 7, Len(seq)))

\* the piece a lock in this call places: where it lands for a hardDrop, where
\* it is for a softDrop or an update
Landing(g, piece, op) ==
    IF op = "hardDrop" THEN MovedBy(piece, 0, RowsToFall(g, piece)) ELSE piece

\* the commands that move the active piece without dropping it
Taps == {"moveLeft", "moveRight", "rotateClockwise", "rotateCounterClockwise"}

\* the non-empty cells of grid g
FilledCells(g) == {c \in (1..BOARD_WIDTH) \X (1..BOARD_HEIGHT) : g[c[2]][c[1]] # Null}

\* the piece is not an O and fits grid g where it is in each of the four
\* orientations
FreeToTurn(g, piece) ==
    /\ piece.type \in PieceTypes \ {"O"}
    /\ \A r \in 0..3 :
          ShapeFree(g, getPieceShape(piece.type, r), piece.position.x, piece.position.y)

(* C1: whenever the session is Playing, the four cells of the active piece  *)
(* are inside the grid and on empty cells.                                  *)
ActivePieceLegal ==
    Playable => /\ Len(currentPiece.shape) = 4
                /\ CellsFree(grid, PieceCells(currentPiece))

(* C2: clearRows(rows) leaves |rows| empty rows on top of the rows of the   *)
(* original grid that are not listed, in their original order.              *)
ClearRowsRemovesExactly ==
    [][last'.op = "clearRows" => grid' = RowsRemoved(grid, last'.arg)]_vars

(* C3: after a call that locked a piece, no row of the grid is full.        *)
NoFullRowAfterLock == last.locked > 0 => FullRowsOf(grid) = {}

(* C4: the score never exceeds the ceiling.                                 *)
ScoreWithinCeiling == score <= MAX_SCORE

(* C5: level = floor(lines / 10) + 1 in every state.                        *)
LevelFromLines == level = (lines \div 10) + 1

LevelTwoAtTenLines == last.op = "addLines" /\ last.arg = 1 /\ lines = 10 /\ level = 2

(* C6: no call other than the reset of a new session lowers the level.      *)
LevelNeverDecreases == [][last'.op # "reset" => level' >= level]_vars

LevelRaisedByClear == last.op = "addLines" /\ last.arg = 4 /\ lines = 12 /\ level = 2

(* C7: addLines(n) adds 100, 300, 500 or 800 for n = 1, 2, 3, 4, times the  *)
(* level after the lines of this clear are counted, up to the ceiling.      *)
LineClearScore ==
    [][last'.op = "addLines" =>
          score' = Min(score + PointsFor(last'.arg) * ((lines' \div 10) + 1), MAX_SCORE)]_vars

\* the fifth four-line clear of a session: 800 x level 3 on top of 4800
TetrisAtLevelThree ==
    last.op = "addLines" /\ last.arg = 4 /\ lines = 20 /\ level = 3 /\ score = 7200

(* C8: an update() that moves the active piece down one row by gravity and  *)
(* locks nothing leaves the score unchanged.                                *)
GravityAwardsNothing ==
    [][(/\ last'.op = "update"
        /\ last'.gravity
        /\ last'.locked = 0
        /\ currentPiece' = MovedBy(currentPiece, 0, 1)) => score' = score]_vars

(* C9: a hardDrop in Playing with an active piece locks the piece in the    *)
(* same call at the lowest free row of its column, adds 2 points per row    *)
(* travelled and spawns the next piece.                                     *)
HardDropLocksAtGhost ==
    [][(last'.op = "hardDrop" /\ Playable) =>
          /\ last'.locked = 1
          /\ last'.spawned = 1
          /\ last'.rows = RowsToFall(grid, currentPiece)
          /\ last'.cleared = Cardinality(FullRowsOf(GridWith(grid, MovedBy(currentPiece, 0, last'.rows))))
          /\ last'.cleared = 0 =>
                /\ grid' = GridWith(grid, MovedBy(currentPiece, 0, last'.rows))
                /\ score' = score + 2 * last'.rows]_vars

(* C10: a softDrop in Playing moves the piece down one row, adds 1 to the   *)
(* score, zeroes the lock delay and returns true when the cells one row     *)
(* down are free; otherwise it locks the piece where it is (placement, line *)
(* clear, spawn of the next piece) and returns false.                       *)
SoftDropStepsOrLocks ==
    [][(last'.op = "softDrop" /\ Playable) =>
          IF CellsFree(grid, PieceCells(MovedBy(currentPiece, 0, 1)))
          THEN /\ last'.ret
               /\ last'.locked = 0
               /\ currentPiece' = [currentPiece EXCEPT !.position.y = @ + 1]
               /\ score' = score + 1
               /\ lockDelay' = 0
               /\ grid' = grid
          ELSE /\ ~last'.ret
               /\ last'.locked = 1
               /\ last'.spawned = 1
               /\ last'.cleared = Cardinality(FullRowsOf(GridWith(grid, currentPiece)))
               /\ last'.cleared = 0 => grid' = GridWith(grid, currentPiece)
               /\ lines' = lines + last'.cleared
               /\ currentPiece'.type = nextPieceType
               /\ currentPiece'.position = Pos(SPAWN_X, SPAWN_Y)]_vars

\* a blocked soft drop has locked the piece, cleared the row it completed and
\* spawned the next piece
SoftDropLocked ==
    /\ last.op = "softDrop" /\ ~last.ret
    /\ last.locked = 1 /\ last.cleared = 1 /\ last.spawned = 1
    /\ lines = 1

(* C11: an update() on a legally placed piece that lies on the floor locks  *)
(* it only when 500 ms have been simulated since it last moved or a command *)
(* was issued, and does lock it once more than 500 ms have been.            *)
LockDelayWindow ==
    [][(/\ last'.op = "update" /\ last'.arg <= 1000
        /\ Playable
        /\ CellsFree(grid, PieceCells(currentPiece))
        /\ OnFloor(currentPiece)) =>
          /\ last'.locked > 0 => idle + last'.arg >= 500
          /\ last'.locked = 0 => idle + last'.arg <= 500]_vars

(* C12: an update() that locks the active piece by the lock-delay timer     *)
(* (not by its gravity step) does so only when the piece cannot go one row  *)
(* down.                                                                    *)
TimerLocksOnlyResting ==
    [][(/\ last'.op = "update"
        /\ Playable
        /\ last'.locked > 0
        /\ ~last'.gravity) => Resting(grid, currentPiece)]_vars

(* C13: an update() of less than 500 ms that follows a successful move or   *)
(* rotation of a resting piece does not lock the piece.                     *)
TapsStallTheLock ==
    [][(/\ last'.op = "update" /\ last'.arg < 500
        /\ last.op \in Taps /\ last.ret
        /\ Playable
        /\ CellsFree(grid, PieceCells(currentPiece))
        /\ Resting(grid, currentPiece)) => last'.locked = 0]_vars

(* C14: a moveLeft or moveRight in Playing succeeds exactly when the cells  *)
(* one column over are free; then the piece is one column over and the lock *)
(* delay is 0; otherwise it returns false and changes nothing.              *)
MoveStepsOrFails ==
    [][(last'.op \in {"moveLeft", "moveRight"} /\ Playable) =>
          LET dx == IF last'.op = "moveLeft" THEN -1 ELSE 1
          IN  IF CellsFree(grid, PieceCells(MovedBy(currentPiece, dx, 0)))
              THEN /\ last'.ret
                   /\ currentPiece' = [currentPiece EXCEPT !.position.x = @ + dx]
                   /\ lockDelay' = 0
              ELSE /\ ~last'.ret
                   /\ UNCHANGED <<currentPiece, grid, score, level, lines, nextPieceType,
                                  holdPieceType, canHold, state, dropTimer, lockDelay,
                                  lastDropPosition>>]_vars

\* a moveRight against the right wall has failed
MoveRejectedAtWall ==
    /\ last.op = "moveRight" /\ ~last.ret
    /\ Playable
    /\ \E i \in DOMAIN currentPiece.shape : PieceCells(currentPiece)[i].x = BOARD_WIDTH - 1

(* C15: a rotation of a piece other than O gives the turned piece at the    *)
(* first offset of its kick list where the cells are free, and fails,       *)
(* leaving the piece as it is, when no offset of the list has free cells.   *)
FirstFreeKickWins ==
    [][(last'.op \in {"rotateClockwise", "rotateCounterClockwise"}
        /\ Playable /\ currentPiece.type # "O") =>
          LET a == currentPiece.rotation
              b == IF last'.op = "rotateClockwise" THEN (a + 1) % 4 ELSE (a + 3) % 4
              class == IF currentPiece.type = "I" THEN "I" ELSE "JLSTZ"
          IN  \E kicks \in {SRS_KICKS[<<class, <<a, b>>>>]} :
              \E turned \in {getPieceShape(currentPiece.type, b)} :
              \E fits \in {{i \in 1..Len(kicks) :
                                ShapeFree(grid, turned, currentPiece.position.x + kicks[i][1],
                                          currentPiece.position.y + kicks[i][2])}} :
                /\ Len(kicks) = 5
                /\ IF fits = {}
                   THEN ~last'.ret /\ currentPiece' = currentPiece
                   ELSE /\ last'.ret
                        /\ currentPiece'.type = currentPiece.type
                        /\ currentPiece'.rotation = b
                        /\ currentPiece'.shape = turned
                        /\ \E i \in fits :
                              /\ \A j \in fits : i <= j
                              /\ currentPiece'.position.x = currentPiece.position.x + kicks[i][1]
                              /\ currentPiece'.position.y = currentPiece.position.y + kicks[i][2]]_vars

\* an I lying in row 0 beside the tall stack has been turned counter-clockwise:
\* the first four offsets collide, the fifth, two rows down, is taken
RotatedWithLastKick ==
    /\ last.op = "rotateCounterClockwise" /\ last.ret
    /\ budget = MaxSteps - 1
    /\ currentPiece = PieceAt("I", 3, Pos(2, 2))
    /\ grid[2][4] # Null

(* C16: a rotation of an O piece in Playing succeeds and leaves the piece   *)
(* (position, rotation, cells) as it is.                                    *)
OPieceRotationIsIdentity ==
    [][(last'.op \in {"rotateClockwise", "rotateCounterClockwise"}
        /\ Playable /\ currentPiece.type = "O") =>
          /\ last'.ret
          /\ currentPiece'.position = currentPiece.position
          /\ currentPiece'.rotation = currentPiece.rotation
          /\ PieceCells(currentPiece') = PieceCells(currentPiece)]_vars

\* an O piece against the left wall has been rotated
OPieceRotatedAtWall ==
    /\ last.op = "rotateCounterClockwise" /\ last.ret
    /\ currentPiece.type = "O" /\ currentPiece.position.x = 0

(* C17: the shape of every piece built for a type and a rotation has four   *)
(* offsets, the offsets of the type at rotation 0 turned rotation times by  *)
(* (x, y) -> (-y, x); for the O piece they are the same set of offsets at   *)
(* every rotation.                                                          *)
ShapeIsTurnedBase ==
    currentPiece # NullPiece =>
        /\ currentPiece.type \in PieceTypes /\ currentPiece.rotation \in 0..3
        /\ Len(currentPiece.shape) = 4
        /\ \A i \in 1..4 :
              currentPiece.shape[i] = Turned(PIECE_SHAPES[currentPiece.type][i], currentPiece.rotation)
        /\ currentPiece.type = "O" =>
              Elements(currentPiece.shape) = Elements(PIECE_SHAPES["O"])

(* C18: every group of seven consecutive draws of a bag (draws 7k+1..7k+7)  *)
(* holds each piece type once; the next piece of a session is its last draw; *)
(* and a hold that swaps draws nothing.                                     *)
BagDealsEachTypeOnce ==
    /\ [](\A k \in 0..(Len(drawn) \div 7) :
            /\ Elements(Window(drawn, k)) \subseteq PieceTypes
            /\ Cardinality(Elements(Window(drawn, k))) = Len(Window(drawn, k)))
    /\ [](state # MENU => nextPieceType = drawn[Len(drawn)])
    /\ [][(last'.op = "hold" /\ last'.ret /\ holdPieceType # Null) => drawn' = drawn]_vars

\* the eighth piece of a session has been drawn, from the second bag
SecondBagOpened ==
    /\ last.op = "hardDrop" /\ last.spawned = 1
    /\ Len(drawn) = 8 /\ index = 1

(* C19 as stated: every spawn makes active the type shown as next, at (4,0) *)
(* in rotation 0, draws a new next, zeroes the lock delay and leaves        *)
(* canHold true.                                                            *)
SpawnLeavesHoldAvailable ==
    [][last'.spawned > 0 =>
          /\ currentPiece'.type = IF last'.op = "start" THEN drawn'[1] ELSE nextPieceType
          /\ currentPiece'.position = Pos(4, 0)
          /\ currentPiece'.rotation = 0
          /\ currentPiece'.shape = PIECE_SHAPES[currentPiece'.type]
          /\ Len(drawn') = IF last'.op = "start" THEN 2 ELSE Len(drawn) + 1
          /\ nextPieceType' = drawn'[Len(drawn')]
          /\ lockDelay' = 0
          /\ canHold']_vars

(* C19 as amended: the same, but canHold is true after the spawn of a start *)
(* or a lock and false after the spawn made by a hold.                      *)
SpawnMakesNextActive ==
    [][last'.spawned > 0 =>
          /\ currentPiece'.type = IF last'.op = "start" THEN drawn'[1] ELSE nextPieceType
          /\ currentPiece'.position = Pos(4, 0)
          /\ currentPiece'.rotation = 0
          /\ currentPiece'.shape = PIECE_SHAPES[currentPiece'.type]
          /\ Len(drawn') = IF last'.op = "start" THEN 2 ELSE Len(drawn) + 1
          /\ nextPieceType' = drawn'[Len(drawn')]
          /\ lockDelay' = 0
          /\ canHold' = (last'.op # "hold")]_vars

\* a hold into the empty slot has spawned the next piece
HoldSpawned ==
    /\ last.op = "hold" /\ last.ret /\ last.spawned = 1
    /\ ~canHold /\ lockDelay = 0
    /\ state = PLAYING

(* C20: a call puts the session into GameOver exactly when it spawns a      *)
(* piece that is not on free cells, and then the grid is the grid with the  *)
(* locked piece placed and its full rows cleared (the grid as it was, when  *)
(* nothing was locked).                                                     *)
GameOverExactlyAtTopOut ==
    [][IF state' = GAME_OVER /\ state # GAME_OVER
       THEN /\ last'.spawned > 0
            /\ ~CellsFree(grid', PieceCells(currentPiece'))
            /\ \E landed \in {Landing(grid, currentPiece, last'.op)} :
               \E placed \in {GridWith(grid, landed)} :
                  grid' = IF last'.locked = 0 THEN grid ELSE clearFullRows(placed)
       ELSE last'.spawned > 0 => CellsFree(grid', PieceCells(currentPiece'))]_vars

\* a hard drop onto the tall stack has locked a piece and the next one tops out
ToppedOut ==
    /\ last.op = "hardDrop" /\ last.locked = 1 /\ last.spawned = 1
    /\ state = GAME_OVER
    /\ ~CellsFree(grid, PieceCells(currentPiece))

(* C21: the session state changes only by start() (to Playing), by          *)
(* togglePause (Playing to Paused, Paused to Playing) and by a spawn onto    *)
(* occupied cells (Playing to GameOver); start() always gives Playing, a     *)
(* colliding spawn always gives GameOver, togglePause in Menu or GameOver    *)
(* leaves the state, and in GameOver only start() changes it.                *)
StateChangesOnlyByRule ==
    [][/\ state' # state =>
            \/ last'.op = "start" /\ state' = PLAYING
            \/ last'.op = "togglePause" /\ state = PLAYING /\ state' = PAUSED
            \/ last'.op = "togglePause" /\ state = PAUSED /\ state' = PLAYING
            \/ /\ state = PLAYING /\ state' = GAME_OVER
               /\ last'.spawned > 0
               /\ ~CellsFree(grid', PieceCells(currentPiece'))
       /\ last'.op = "start" => state' = PLAYING
       /\ (last'.spawned > 0 /\ ~CellsFree(grid', PieceCells(currentPiece'))) => state' = GAME_OVER
       /\ (last'.op = "togglePause" /\ state \in {MENU, GAME_OVER}) => state' = state
       /\ (state = GAME_OVER /\ last'.op # "start") => state' = GAME_OVER]_vars

\* togglePause has been called on a session that is over
PauseIgnoredWhenOver ==
    /\ last.op = "togglePause"
    /\ state = GAME_OVER

(* C22: in GameOver every call but start() (the moves, drops, rotations,     *)
(* hold, togglePause, update) returns failure and leaves the grid, the       *)
(* active piece, the next and hold types, canHold, the score, lines and      *)
(* level, the bag and the timers as they are.                                *)
GameOverIsFrozen ==
    [][(state = GAME_OVER /\ last'.op # "start") =>
          /\ ~last'.ret
          /\ last'.locked = 0 /\ last'.spawned = 0
          /\ UNCHANGED <<grid, currentPiece, nextPieceType, holdPieceType, canHold,
                         score, lines, level, bag, index, state,
                         dropTimer, lockDelay, lastDropPosition>>]_vars

\* a moveLeft has been called on a session that is over
MoveIgnoredWhenOver ==
    /\ last.op = "moveLeft" /\ ~last.ret
    /\ state = GAME_OVER
    /\ \A i \in DOMAIN currentPiece.shape : PieceCells(currentPiece)[i].x > 0

(* C23: while the session is Paused every call but togglePause and start()  *)
(* leaves the grid, the active piece, the hold slot, the score and both      *)
(* timers (and every other field) as they are; a togglePause changes the     *)
(* state only, and two of them from Playing give the state they started in.  *)
PausedIsFrozen ==
    /\ [](state = PLAYING => togglePause(togglePause(Cur)) = Cur)
    /\ [][/\ (state = PAUSED /\ last'.op \notin {"togglePause", "start"}) =>
               /\ ~last'.ret
               /\ UNCHANGED <<grid, currentPiece, nextPieceType, holdPieceType, canHold,
                              score, lines, level, bag, index, state,
                              dropTimer, lockDelay, lastDropPosition>>
          /\ (last'.op = "togglePause" /\ state \in {PLAYING, PAUSED}) =>
               /\ state' = IF state = PLAYING THEN PAUSED ELSE PLAYING
               /\ UNCHANGED <<grid, currentPiece, nextPieceType, holdPieceType, canHold,
                              score, lines, level, bag, index,
                              dropTimer, lockDelay, lastDropPosition>>]_vars

\* an update of 100 ms has been called on a paused session whose drop timer
\* is 100 ms short of the gravity step
UpdateIgnoredWhilePaused ==
    /\ last.op = "update" /\ last.arg = 100
    /\ state = PAUSED
    /\ dropTimer = 900 /\ level = 1

OneHoldPerPiece ==
    [][/\ (last'.op = "hold" /\ last'.ret) => (canHold /\ ~canHold')
       /\ (last'.op = "hold" /\ ~canHold) =>
            /\ ~last'.ret
            /\ ~canHold'
            /\ UNCHANGED <<currentPiece, holdPieceType, nextPieceType, grid>>
       /\ last'.op \notin {"hold", "start"} => canHold' = (canHold \/ last'.locked > 0)
       /\ last'.locked > 0 => last'.spawned > 0]_vars

\* a second hold() on a piece, in Playing, has been refused
SecondHoldRefused ==
    /\ last.op = "hold" /\ ~last.ret
    /\ Playable /\ ~canHold
    /\ holdPieceType # Null

(* C26: a hold() in Playing with canHold true and the hold slot empty        *)
(* succeeds, puts the type of the active piece into the slot, leaves the     *)
(* grid as it is, makes the type shown as next the active piece at the       *)
(* spawn position, draws a new next type from the bag and leaves canHold     *)
(* false.                                                                    *)
HoldIntoEmptySlot ==
    [][(last'.op = "hold" /\ Playable /\ canHold /\ holdPieceType = Null) =>
          /\ last'.ret
          /\ holdPieceType' = currentPiece.type
          /\ grid' = grid
          /\ last'.locked = 0 /\ last'.spawned = 1
          /\ currentPiece' = PieceAt(nextPieceType, 0, Pos(4, 0))
          /\ currentPiece'.shape = PIECE_SHAPES[nextPieceType]
          /\ Len(drawn') = Len(drawn) + 1
          /\ nextPieceType' = drawn'[Len(drawn')]
          /\ ~canHold']_vars

\* the first piece of a session, moved down the grid, has been put into the
\* empty hold slot
FirstPieceHeld ==
    /\ last.op = "hold" /\ last.ret /\ last.spawned = 1
    /\ Len(drawn) = 3
    /\ holdPieceType = drawn[1] /\ currentPiece.type = drawn[2] /\ nextPieceType = drawn[3]
    /\ score > 0
    /\ grid = EmptyGrid

(* C27: a hold() in Playing with canHold true and a type in the hold slot    *)
(* succeeds, makes the held type the active piece at the spawn position in   *)
(* rotation 0 (wherever the old piece was and however it was turned), puts   *)
(* the old piece's type into the slot, leaves the next type, the bag and its *)
(* cursor and the grid as they are, and leaves canHold false.                *)
HoldSwaps ==
    [][(last'.op = "hold" /\ Playable /\ canHold /\ holdPieceType # Null) =>
          /\ last'.ret
          /\ currentPiece' = PieceAt(holdPieceType, 0, Pos(4, 0))
          /\ currentPiece'.shape = PIECE_SHAPES[holdPieceType]
          /\ holdPieceType' = currentPiece.type
          /\ last'.spawned = 0 /\ last'.locked = 0
          /\ UNCHANGED <<nextPieceType, bag, index, drawn, grid>>
          /\ ~canHold']_vars

\* a piece that had been moved away from the spawn position has been swapped
\* with the held one, which is at the spawn position
MovedPieceSwapped ==
    /\ last.op = "hold" /\ last.ret /\ last.spawned = 0
    /\ holdPieceType # Null /\ holdPieceType # currentPiece.type
    /\ lastDropPosition \notin {NullPos, Pos(4, 0)}
    /\ currentPiece.position = Pos(4, 0) /\ currentPiece.rotation = 0

(* C28: the drop interval of the level reached is max(100, 1000 - (level -   *)
(* 1) * 100) ms at levels 1 to 9, 100 ms at levels 10 to 19 and 50 ms from   *)
(* level 20 on; no lower level has a shorter interval, and the interval is   *)
(* never below 30 ms.                                                        *)
DropIntervalByLevel ==
    /\ level >= 1
    /\ level \in 1..9 => getDropInterval(level) = Max(100, 1000 - (level - 1) * 100)
    /\ level \in 10..19 => getDropInterval(level) = 100
    /\ level >= 20 => getDropInterval(level) = 50
    /\ \A lower \in 1..level : getDropInterval(lower) >= getDropInterval(level)
    /\ getDropInterval(level) >= 30

\* a clear has taken the score system to level 20, where the interval is 50 ms
LevelTwentyReached ==
    /\ last.op = "addLines"
    /\ level = 20
    /\ getDropInterval(level) = 50

(* C29: an update() with a deltaTime above 1000 ms locks and drops nothing   *)
(* and leaves the active piece, the grid, the score, the drop timer and the  *)
(* lock delay (and every other field) as they are.                           *)
LongFrameIsIgnored ==
    [][(last'.op = "update" /\ last'.arg > 1000) =>
          /\ last'.locked = 0 /\ last'.spawned = 0 /\ ~last'.gravity
          /\ UNCHANGED <<grid, currentPiece, nextPieceType, holdPieceType, canHold,
                         score, lines, level, bag, index, state,
                         dropTimer, lockDelay, lastDropPosition>>]_vars

\* an update of more than 1000 ms has been called in Playing on a piece that
\* lies on the floor with the drop timer 100 ms short of the gravity step
LongFrameOnFloor ==
    /\ last.op = "update" /\ last.arg > 1000
    /\ Playable
    /\ OnFloor(currentPiece)
    /\ dropTimer = 900 /\ level = 1

(* C30: a 'levelUp' event is dispatched by a clear exactly when the clear    *)
(* raises the level.                                                         *)
LevelUpIsSignalled ==
    [][last'.op = "addLines" =>
          ((level' > level) <=>
              (\E i \in DOMAIN last'.dispatched : last'.dispatched[i] = "levelUp"))]_vars

LockConservesCells ==
    [][last'.locked > 0 =>
          \E landed \in {Landing(grid, currentPiece, last'.op)} :
          \E placed \in {GridWith(grid, landed)} :
          \E full \in {FullRowsOf(placed)} :
             /\ Cardinality(FilledCells(grid')) =
                   Cardinality(FilledCells(grid)) + 4 - 10 * (lines' - lines)
             /\ \A c \in FilledCells(placed) :
                   c[2] \notin full =>
                      grid'[c[2] + Cardinality({y \in full : y > c[2]})][c[1]] = placed[c[2]][c[1]]]_vars

(* C37: the grid always has 20 rows of 10 cells, and a call changes a cell   *)
(* of it only when it locks a piece or is start(): the moves, the rotations, *)
(* hold, togglePause, a soft drop that steps down and an update() that does  *)
(* not lock leave the grid as it is.                                         *)
GridChangesOnlyByLock ==
    /\ [](/\ DOMAIN grid = 1..BOARD_HEIGHT
          /\ \A y \in 1..BOARD_HEIGHT : DOMAIN grid[y] = 1..BOARD_WIDTH)
    /\ [][/\ (last'.locked = 0 /\ last'.op # "start") => grid' = grid
          /\ last'.op \in (Taps \cup {"hold", "togglePause"}) => grid' = grid
          /\ (last'.op = "softDrop" /\ last'.ret) => grid' = grid
          /\ (last'.op = "update" /\ last'.locked = 0) => grid' = grid]_vars

\* a soft drop has moved a piece one row down over a grid that holds locked
\* pieces
SteppedDownOverStack ==
    /\ last.op = "softDrop" /\ last.ret /\ last.locked = 0
    /\ Playable
    /\ grid # EmptyGrid

(* C38: the lock delay is always at least 0 and below 500 ms, and an         *)
(* update() locks at most one piece and, when it locks none, leaves the      *)
(* active piece where it is or one row lower.                                *)
LockDelayBelowLimit ==
    /\ [](0 <= lockDelay /\ lockDelay < 500)
    /\ [][last'.op = "update" =>
             /\ last'.locked <= 1
             /\ last'.locked = 0 =>
                  \/ currentPiece' = currentPiece
                  \/ currentPiece' = MovedBy(currentPiece, 0, 1)]_vars

\* an update has taken the lock delay to 500 ms and locked the piece: the
\* delay is back at 0
TimerLockedPiece ==
    /\ last.op = "update" /\ last.locked = 1 /\ ~last.gravity
    /\ lockDelay = 0
    /\ idle = 0

(* C35: on a grid where exactly rows r1 < r2 are full, clearRows of the two  *)
(* rows, listed in either order, gives the grid that clearRow(r2) followed   *)
(* by clearRow(r1) gives, and so the same grid for both orders.              *)
ClearRowsIgnoresOrder ==
    [][(/\ last'.op = "clearRows"
        /\ Len(last'.arg) = 2
        /\ FullRowsOf(grid) = {last'.arg[1] + 1, last'.arg[2] + 1}) =>
          \E r1 \in {Min(last'.arg[1], last'.arg[2])} :
          \E r2 \in {Max(last'.arg[1], last'.arg[2])} :
             /\ r1 < r2
             /\ grid' = clearRow(clearRow(grid, r2), r1)
             /\ clearRows(grid, <<r1, r2>>) = grid'
             /\ clearRows(grid, <<r2, r1>>) = grid']_vars

\* clearRows([18, 19]), the rows listed in ascending order, has been called
\* on a grid where just rows 18 and 19 were full, and has left the old row 18
ListedAscendingCleared ==
    /\ last.op = "clearRows"
    /\ last.arg = <<18, 19>>
    /\ FullRowsOf(grid) = {20}
    /\ grid[1] = EmptyRow /\ grid[2] = EmptyRow

(* C39: the rotation of the active piece is always 0, 1, 2 or 3 and its      *)
(* shape is getPieceShape(type, rotation); for a piece other than O that     *)
(* fits where it is in all four orientations, a rotation succeeds and turns  *)
(* it in place, rotateClockwise followed by rotateCounterClockwise gives     *)
(* back the piece (position, rotation, cells), and so do four                *)
(* rotateClockwise calls.                                                    *)
RotationsUndoEachOther ==
    /\ [](currentPiece # NullPiece =>
             /\ currentPiece.rotation \in 0..3
             /\ currentPiece.shape = getPieceShape(currentPiece.type, currentPiece.rotation))
    /\ [](Playable /\ FreeToTurn(grid, currentPiece) =>
             \E once \in {rotateClockwise(Cur)} :
             \E back \in {rotateCounterClockwise(once)} :
             \E twice \in {rotateClockwise(once)} :
             \E thrice \in {rotateClockwise(twice)} :
             \E around \in {rotateClockwise(thrice)} :
                /\ once.ev.ret /\ back.ev.ret /\ around.ev.ret
                /\ once.currentPiece.rotation = (currentPiece.rotation + 1) % 4
                /\ back.currentPiece = currentPiece
                /\ PieceCells(back.currentPiece) = PieceCells(currentPiece)
                /\ around.currentPiece = currentPiece
                /\ PieceCells(around.currentPiece) = PieceCells(currentPiece))
    /\ [][(/\ last'.op \in {"rotateClockwise", "rotateCounterClockwise"}
           /\ Playable /\ FreeToTurn(grid, currentPiece)) =>
             /\ last'.ret
             /\ currentPiece'.position = currentPiece.position
             /\ currentPiece'.rotation =
                   (currentPiece.rotation + IF last'.op = "rotateClockwise" THEN 1 ELSE 3) % 4
             /\ FreeToTurn(grid', currentPiece')]_vars

\* a T in the open has been turned clockwise three times, to rotation 3
TurnedInTheOpen ==
    /\ last.op = "rotateClockwise" /\ last.ret
    /\ budget = 0
    /\ currentPiece.type = "T" /\ currentPiece.rotation = 3
    /\ lastDropPosition = currentPiece.position
    /\ FreeToTurn(grid, currentPiece)
    /\ grid # EmptyGrid

(* C33: for a piece that does not collide, getGhostPosition returns a        *)
(* position in the same column, at or below the piece, where the piece does  *)
(* not collide, nor in any row from its own down to that one, and where it   *)
(* does collide one row further down.                                        *)
GhostIsLowestFreeRow ==
    [][(last'.op = "getGhostPosition" /\ CellsFree(grid, PieceCells(currentPiece))) =>
          \E ghost \in {last'.ghost} :
             /\ ghost.x = currentPiece.position.x
             /\ ghost.y >= currentPiece.position.y
             /\ \A y \in currentPiece.position.y..ghost.y :
                   ShapeFree(grid, currentPiece.shape, ghost.x, y)
             /\ ~ShapeFree(grid, currentPiece.shape, ghost.x, ghost.y + 1)
             /\ UNCHANGED <<grid, currentPiece>>]_vars

\* the ghost of a piece has been found lower down, on top of locked pieces
GhostOnStack ==
    /\ last.op = "getGhostPosition"
    /\ CellsFree(grid, PieceCells(currentPiece))
    /\ last.ghost.y > currentPiece.position.y + 1
    /\ ~OnFloor([currentPiece EXCEPT !.position = last.ghost])

(* C34: hasCollision returns true exactly when one of the four cells of the  *)
(* piece has x < 0, x >= 10, y < 0 or y >= 20 or is a non-empty cell of the  *)
(* grid, and it leaves the grid as it is.                                    *)
CollisionIffOutsideOrOccupied ==
    [][last'.op = "hasCollision" =>
          /\ Len(currentPiece.shape) = 4
          /\ last'.ret <=>
                \E i \in 1..4 :
                   \E x \in {currentPiece.position.x + currentPiece.shape[i].x} :
                   \E y \in {currentPiece.position.y + currentPiece.shape[i].y} :
                      \/ x < 0 \/ x >= 10 \/ y < 0 \/ y >= 20
                      \/ grid[y + 1][x + 1] # Null
          /\ UNCHANGED <<grid, currentPiece>>]_vars

\* a piece with all its cells inside the grid has been found to collide
CollidedWithLockedCell ==
    /\ last.op = "hasCollision" /\ last.ret = TRUE
    /\ \A i \in DOMAIN currentPiece.shape : InBounds(PieceCells(currentPiece)[i])

(* C31: in a session in which the only calls are hard drops, whatever the    *)
(* order of the bag, no lock completes a row and lines stays 0, each drop    *)
(* made while Playing adds twice the rows fallen to the score, the state is  *)
(* Playing until a piece spawns on occupied cells and GameOver from then on, *)
(* and GameOver is reached.                                                  *)
DropsOnlyEndInGameOver ==
    /\ [](lines = 0 /\ last.cleared = 0 /\ state \in {PLAYING, GAME_OVER})
    /\ [][(last'.op = "hardDrop" /\ state = PLAYING) =>
            \E landed \in {MovedBy(currentPiece, 0, RowsToFall(grid, currentPiece))} :
               /\ score' = score + 2 * (landed.position.y - currentPiece.position.y)
               /\ FullRowsOf(GridWith(grid, landed)) = {}
               /\ last'.locked = 1 /\ last'.spawned = 1
               /\ state' = GAME_OVER <=> ~CellsFree(grid', PieceCells(currentPiece'))
               /\ state' = PLAYING <=> CellsFree(grid', PieceCells(currentPiece'))]_vars
    /\ [][state = GAME_OVER => state' = GAME_OVER /\ score' = score]_vars
    /\ <>(state = GAME_OVER)

\* a session of hard drops has ended with pieces from two bags in the stack
DropsReachedGameOver ==
    /\ state = GAME_OVER /\ last.op = "hardDrop" /\ last.locked = 1
    /\ Len(drawn) > Len(BagOrder) + 2
    /\ score > 0 /\ lines = 0

\* the commands of the Game the keys of a sequence stand for, in order
CommandsOf(keys) ==
    SelectSeq([i \in 1..Len(keys) |-> KeyCommand(keys[i])], LAMBDA c : c \in GameCommands)

(* C40: whatever the order of key presses and animation frames, the commands *)
(* called on the Game are those of the keys pressed, each once and in the    *)
(* order pressed, but for those of the keys still in the queue; a key is in  *)
(* the queue only while a call of processInputQueue waits for its frame, at  *)
(* most one call waits at a time, a press changes nothing in the Game, and   *)
(* the resumed call applies the commands of the whole queue to the Game.     *)
KeysDeliveredOnceInOrder ==
    /\ [](/\ CommandsOf(pressed) = delivered \o CommandsOf(inputQueue)
          /\ frames <= 1
          /\ isProcessing <=> frames = 1
          /\ inputQueue # <<>> => isProcessing)
    /\ [][/\ last'.op = "handleKeyPress" =>
               /\ inputQueue' = Append(inputQueue, pressed'[Len(pressed')])
               /\ delivered' = delivered
               /\ UNCHANGED <<grid, score, level, lines, currentPiece, nextPieceType,
                              holdPieceType, canHold, state, bag, index>>
          /\ last'.op = "processInputQueue" =>
               /\ inputQueue' = <<>>
               /\ \E draws \in GameDraws :
                     \E g \in {Play(Cur, CommandsOf(inputQueue), draws)} :
                        /\ grid' = g.grid /\ score' = g.score /\ lines' = g.lines
                        /\ currentPiece' = g.currentPiece /\ state' = g.state
                        /\ holdPieceType' = g.holdPieceType
                        /\ nextPieceType' = g.nextPieceType]_vars

\* a frame has delivered a key pressed before the wait and one pressed during
\* it, and they have moved and dropped the piece
TwoKeysDeliveredByOneFrame ==
    /\ last.op = "processInputQueue" /\ last.arg >= 2
    /\ delivered = <<"L", "HD">>
    /\ last.locked = 1

====
